---------------------------- MODULE Spec2Model ----------------------------
(***************************************************************************)
(* Variance analysis and prefix partitioning of glob token trees           *)
(* (src/token/mod.rs of wax).                                              *)
(*                                                                         *)
(* Tokens are records tagged by `kind`.  Option<T> is a sequence of length *)
(* at most one: <<>> is None and <<v>> is Some(v).  Text is a sequence of  *)
(* one-character strings.  Variance<T> is <<"Invariant", v>> or            *)
(* <<"Variant", b>> with b in {"Closed", "Open"}.                          *)
(***************************************************************************)
EXTENDS Integers, Sequences, FiniteSets, TLC

VARIABLES
    PATHS_ARE_CASE_INSENSITIVE, \* the crate-wide case policy constant
    tokens,                     \* Tokenized.tokens
    original,                   \* history: Tokenized.tokens before the last partition
    prefix,                     \* Option: the PathBuf returned by the last partition
    calls,                      \* number of partition calls made
    token,                      \* Option: the token under analysis
    text_variance,              \* Option: result of unit_variance::<InvariantText>
    size_variance,              \* Option: result of unit_variance::<InvariantSize>
    depth,                      \* Option: result of TokenKind::depth
    new_args,                   \* Option: the arguments given to Repetition::new
    repetition,                 \* Option<Option<Repetition>>: result of Repetition::new
    bounds,                     \* Option: result of Repetition::bounds
    unrooted,                   \* Option<Option<bool>>: what the last partition's unroot returned
    component_list,             \* Option: the components yielded by components(tokens)
    root,                       \* Option: result of Token::has_root
    component,                  \* Option: the Component under analysis
    component_literal           \* Option<Option<LiteralSequence>>: result of Component::literal

vars == <<PATHS_ARE_CASE_INSENSITIVE, tokens, original, prefix, calls, token,
          text_variance, size_variance, depth, new_args, repetition, bounds,
          unrooted, component_list, root, component, component_literal>>

-----------------------------------------------------------------------------
(* Bounds of the model *)

MaxLen == 2         \* longest token sequence inside a branch or a repetition
MaxBound == 3       \* largest repetition bound
MaxPattern == 3     \* longest top-level pattern
MaxCalls == 2       \* most partition calls on one pattern

-----------------------------------------------------------------------------
(* Option and sequences *)

None == <<>>
Some(v) == <<v>>
IsSome(o) == Len(o) = 1
Unwrap(o) == o[1]

SeqsUpTo(S, n) == UNION {[1..m -> S] : m \in 0..n}

RECURSIVE RepeatText(_, _)
RepeatText(a, n) == IF n = 0 THEN <<>> ELSE a \o RepeatText(a, n - 1)

-----------------------------------------------------------------------------
(* Variance algebra (token/variance.rs) *)

Closed == "Closed"
Open == "Open"
Boundedness == {Closed, Open}

Invariant(v) == <<"Invariant", v>>
Variant(b) == <<"Variant", b>>
is_invariant(x) == x[1] = "Invariant"
is_variant(x) == x[1] = "Variant"

Text == "Text"
Size == "Size"

\* Invariance::empty
empty(dom) == IF dom = Text THEN <<>> ELSE 0

\* Add on invariant values: text concatenation or size addition.
InvariantAdd(dom, a, b) == IF dom = Text THEN a \o b ELSE a + b

\* Mul<usize> on invariant values.
InvariantMul(dom, a, n) == IF dom = Text THEN RepeatText(a, n) ELSE a * n

\* Sequencing (+) of two variances.
Add(dom, l, r) ==
    CASE is_invariant(l) /\ is_invariant(r) -> Invariant(InvariantAdd(dom, l[2], r[2]))
      [] is_invariant(l) /\ is_variant(r) -> r
      [] is_variant(l) /\ is_invariant(r) -> l
      [] OTHER -> IF l[2] = Closed /\ r[2] = Closed THEN Variant(Closed) ELSE Variant(Open)

\* Variance::map_invariance with a multiplication by n.
Mul(dom, x, n) == IF is_invariant(x) THEN Invariant(InvariantMul(dom, x[2], n)) ELSE x

\* ConjunctiveVariance::conjunctive_variance over a sequence of unit variances.
RECURSIVE conjunctive_fold(_, _, _)
conjunctive_fold(dom, acc, vs) ==
    IF vs = <<>> THEN acc ELSE conjunctive_fold(dom, Add(dom, acc, Head(vs)), Tail(vs))

conjunctive_variance(dom, vs) == conjunctive_fold(dom, Invariant(empty(dom)), vs)

\* DisjunctiveVariance::disjunctive_variance over a sequence of unit variances.
disjunctive_variance(dom, vs) ==
    IF vs = <<>> THEN Invariant(empty(dom))
    ELSE IF \A i \in DOMAIN vs : is_invariant(vs[i]) /\ vs[i] = vs[1] THEN vs[1]
    ELSE IF \E i \in DOMAIN vs : vs[i] = Variant(Open) THEN Variant(Open)
    ELSE Variant(Closed)

-----------------------------------------------------------------------------
(* Token constructors *)

Literal(text, is_case_insensitive) ==
    [kind |-> "Literal", text |-> text, is_case_insensitive |-> is_case_insensitive]
Class(is_negated, archetypes) ==
    [kind |-> "Class", is_negated |-> is_negated, archetypes |-> archetypes]
Separator == [kind |-> "Separator"]
One == [kind |-> "Wildcard", wildcard |-> "One"]
ZeroOrMore(evaluation) ==
    [kind |-> "Wildcard", wildcard |-> "ZeroOrMore", evaluation |-> evaluation]
Tree(has_root) == [kind |-> "Wildcard", wildcard |-> "Tree", has_root |-> has_root]
Alternative(branches) == [kind |-> "Alternative", branches |-> branches]
Repetition(ts, lower, step) ==
    [kind |-> "Repetition", tokens |-> ts, lower |-> lower, step |-> step]

Character(c) == <<"Character", c>>
Range(a, b) == <<"Range", a, b>>

IsTree(t) == t.kind = "Wildcard" /\ t.wildcard = "Tree"

\* std::path::MAIN_SEPARATOR as text
MAIN_SEPARATOR == <<"/">>

\* StrExt::has_casing: some character of the text has an upper and a lower case form.
CasedChars == {"a", "b"}
has_casing(text) == \E i \in DOMAIN text : text[i] \in CasedChars

-----------------------------------------------------------------------------
(* Unit variance per token kind *)

RECURSIVE TokenKind_unit_variance(_, _)
RECURSIVE coalesce(_, _, _)

\* Token::unit_variance
Token_unit_variance(dom, t) == TokenKind_unit_variance(dom, t)

\* The unit variances of a token sequence, in order (iter().map(unit_variance)).
unit_variances(dom, ts) == [i \in DOMAIN ts |-> Token_unit_variance(dom, ts[i])]

\* Archetype::domain_variance
Archetype_domain_variance(a) ==
    IF a[1] = "Character"
    THEN IF PATHS_ARE_CASE_INSENSITIVE THEN Variant(Closed) ELSE Invariant(a[2])
    ELSE IF (a[2] # a[3]) \/ PATHS_ARE_CASE_INSENSITIVE
         THEN Variant(Closed)
         ELSE Invariant(a[2])

\* UnitVariance<InvariantText> and UnitVariance<InvariantSize> for &Archetype
Archetype_unit_variance(dom, a) ==
    LET v == Archetype_domain_variance(a)
    IN  IF is_invariant(v)
        THEN Invariant(IF dom = Text THEN <<v[2]>> ELSE 4)
        ELSE v

\* Faulty variation: the negation of the class is not looked at.
Class_unit_variance_ignores_negation(dom, class) ==
    disjunctive_variance(dom,
        [i \in DOMAIN class.archetypes |->
            Archetype_unit_variance(dom, class.archetypes[i])])

\* UnitVariance for &Class
Class_unit_variance(dom, class) ==
    IF class.is_negated
    THEN Variant(Closed)
    ELSE disjunctive_variance(dom,
            [i \in DOMAIN class.archetypes |->
                Archetype_unit_variance(dom, class.archetypes[i])])

\* Faulty variation: either condition alone makes the literal variant.
has_variant_casing_either(literal) ==
    (PATHS_ARE_CASE_INSENSITIVE # literal.is_case_insensitive) \/ has_casing(literal.text)

\* Literal::has_variant_casing
has_variant_casing(literal) ==
    (PATHS_ARE_CASE_INSENSITIVE # literal.is_case_insensitive) /\ has_casing(literal.text)

\* Literal::domain_variance
Literal_domain_variance(literal) ==
    IF has_variant_casing(literal) THEN Variant(Closed) ELSE Invariant(literal.text)

\* UnitVariance<InvariantText> and UnitVariance<InvariantSize> for &Literal
Literal_unit_variance(dom, literal) ==
    LET v == Literal_domain_variance(literal)
    IN  IF is_invariant(v)
        THEN Invariant(IF dom = Text THEN v[2] ELSE Len(v[2]))
        ELSE v

\* UnitVariance<InvariantText> and UnitVariance<InvariantSize> for &Separator
Separator_unit_variance(dom) ==
    Invariant(IF dom = Text THEN MAIN_SEPARATOR ELSE Len(MAIN_SEPARATOR))

\* Faulty variation: only the first branch of the alternative is looked at.
Alternative_unit_variance_first_branch(dom, alternative) ==
    IF alternative.branches = <<>> THEN Invariant(empty(dom))
    ELSE conjunctive_variance(dom, unit_variances(dom, alternative.branches[1]))

\* UnitVariance for &Alternative
Alternative_unit_variance(dom, alternative) ==
    disjunctive_variance(dom,
        [i \in DOMAIN alternative.branches |->
            conjunctive_variance(dom, unit_variances(dom, alternative.branches[i]))])

\* The closure given to Itertools::coalesce in the unit variance of a repetition:
\* Some(merged) for Ok(merged), None for Err((left, right)).
coalesce_f(dom, left, right) ==
    IF left.kind = "Separator" /\ Token_unit_variance(dom, right) = Variant(Open)
    THEN Some(right)
    ELSE IF Token_unit_variance(dom, left) = Variant(Open) /\ right.kind = "Separator"
    THEN Some(left)
    ELSE None

\* Itertools::coalesce: `last` is the pending item, `rest` what is left to read.
coalesce(dom, last, rest) ==
    IF rest = <<>> THEN <<last>>
    ELSE LET merged == coalesce_f(dom, last, Head(rest))
         IN  IF IsSome(merged)
             THEN coalesce(dom, Unwrap(merged), Tail(rest))
             ELSE <<last>> \o coalesce(dom, Head(rest), Tail(rest))

coalesced(dom, ts) == IF ts = <<>> THEN <<>> ELSE coalesce(dom, Head(ts), Tail(ts))

\* Faulty variation: an exact count that is not multiplied in.
Repetition_unit_variance_once(dom, rep) ==
    LET variance == conjunctive_variance(dom, unit_variances(dom, coalesced(dom, rep.tokens)))
    IN  IF rep.step = Some(0)
        THEN variance
        ELSE Add(dom, variance, Variant(Open))

\* Faulty variation: every bounded range is treated as an exact count.
Repetition_unit_variance_bounded_exact(dom, rep) ==
    LET variance == conjunctive_variance(dom, unit_variances(dom, coalesced(dom, rep.tokens)))
    IN  IF IsSome(rep.step)
        THEN Mul(dom, variance, rep.lower)
        ELSE Add(dom, variance, Variant(Open))

\* UnitVariance for &Repetition
Repetition_unit_variance(dom, rep) ==
    LET variance == conjunctive_variance(dom, unit_variances(dom, coalesced(dom, rep.tokens)))
    IN  IF rep.step = Some(0)
        THEN Mul(dom, variance, rep.lower)
        ELSE Add(dom, variance, Variant(Open))

\* Faulty variation: wildcards that stay within one component are closed.
TokenKind_unit_variance_by_wildcard(dom, t) ==
    CASE t.kind = "Alternative" -> Alternative_unit_variance(dom, t)
      [] t.kind = "Class" -> Class_unit_variance(dom, t)
      [] t.kind = "Literal" -> Literal_unit_variance(dom, t)
      [] t.kind = "Repetition" -> Repetition_unit_variance(dom, t)
      [] t.kind = "Separator" -> Separator_unit_variance(dom)
      [] t.kind = "Wildcard" -> IF t.wildcard = "Tree" THEN Variant(Open) ELSE Variant(Closed)

\* UnitVariance for &TokenKind
TokenKind_unit_variance(dom, t) ==
    CASE t.kind = "Alternative" -> Alternative_unit_variance(dom, t)
      [] t.kind = "Class" -> Class_unit_variance(dom, t)
      [] t.kind = "Literal" -> Literal_unit_variance(dom, t)
      [] t.kind = "Repetition" -> Repetition_unit_variance(dom, t)
      [] t.kind = "Separator" -> Separator_unit_variance(dom)
      [] t.kind = "Wildcard" -> Variant(Open)

-----------------------------------------------------------------------------
(* Predicates over the token tree, depth *)

RECURSIVE Token_has_token_with(_, _)
RECURSIVE Token_has_preceding_token_with(_, _)
RECURSIVE TokenKind_depth(_)

\* TokenKind::is_component_boundary
is_component_boundary(t) == t.kind = "Separator" \/ IsTree(t)

\* The closures handed to has_token_with, by name.
depth_is_open == "depth_is_open"
component_boundary == "is_component_boundary"
separator_or_rooted_tree == "separator_or_rooted_tree"

call(f, t) ==
    CASE f = depth_is_open -> TokenKind_depth(t) = Open
      [] f = component_boundary -> is_component_boundary(t)
      [] f = separator_or_rooted_tree -> t.kind = "Separator" \/ (IsTree(t) /\ t.has_root)

\* Alternative::has_token_with
Alternative_has_token_with(alternative, f) ==
    \E i \in DOMAIN alternative.branches :
        \E j \in DOMAIN alternative.branches[i] :
            Token_has_token_with(alternative.branches[i][j], f)

\* Repetition::has_token_with
Repetition_has_token_with(rep, f) ==
    \E i \in DOMAIN rep.tokens : Token_has_token_with(rep.tokens[i], f)

\* Token::has_token_with
Token_has_token_with(t, f) ==
    CASE t.kind = "Alternative" -> Alternative_has_token_with(t, f)
      [] t.kind = "Repetition" -> Repetition_has_token_with(t, f)
      [] OTHER -> call(f, t)

\* Faulty variation: an alternative that looks at every token of a branch.
Alternative_has_preceding_token_with_any(alternative, f) ==
    \E i \in DOMAIN alternative.branches :
        \E j \in DOMAIN alternative.branches[i] :
            Token_has_preceding_token_with(alternative.branches[i][j], f)

\* Alternative::has_preceding_token_with
Alternative_has_preceding_token_with(alternative, f) ==
    \E i \in DOMAIN alternative.branches :
        IF alternative.branches[i] = <<>> THEN FALSE
        ELSE Token_has_preceding_token_with(Head(alternative.branches[i]), f)

\* Repetition::has_preceding_token_with
Repetition_has_preceding_token_with(rep, f) ==
    IF rep.tokens = <<>> THEN FALSE
    ELSE Token_has_preceding_token_with(Head(rep.tokens), f)

\* Token::has_preceding_token_with
Token_has_preceding_token_with(t, f) ==
    CASE t.kind = "Alternative" -> Alternative_has_preceding_token_with(t, f)
      [] t.kind = "Repetition" -> Repetition_has_preceding_token_with(t, f)
      [] OTHER -> call(f, t)

\* Token::has_root
Token_has_root(t) == Token_has_preceding_token_with(t, separator_or_rooted_tree)

\* Repetition::has_component_boundary
Repetition_has_component_boundary(rep) == Repetition_has_token_with(rep, component_boundary)

\* Repetition::bounds
Repetition_bounds(rep) ==
    <<rep.lower, IF IsSome(rep.step) THEN Some(rep.lower + Unwrap(rep.step)) ELSE None>>

\* TokenKind::depth
TokenKind_depth(t) ==
    CASE t.kind \in {"Class", "Literal", "Separator"} -> Closed
      [] t.kind = "Wildcard" /\ t.wildcard \in {"One", "ZeroOrMore"} -> Closed
      [] t.kind = "Alternative" ->
            IF Alternative_has_token_with(t, depth_is_open) THEN Open ELSE Closed
      [] t.kind = "Repetition" ->
            LET upper == Repetition_bounds(t)[2]
            IN  IF upper = None /\ Repetition_has_component_boundary(t)
                THEN Open
                ELSE Closed
      [] t.kind = "Wildcard" /\ t.wildcard = "Tree" -> Open

-----------------------------------------------------------------------------
(* Repetition::new *)

Included(n) == <<"Included", n>>
Excluded(n) == <<"Excluded", n>>
Unbounded == <<"Unbounded">>

Max(a, b) == IF a >= b THEN a ELSE b

\* Faulty variation: an upper bound of zero is let through.
Repetition_new_allows_zero(ts, range) ==
    LET lower == CASE range.start[1] = "Included" -> range.start[2]
                   [] range.start[1] = "Excluded" -> range.start[2] + 1
                   [] range.start[1] = "Unbounded" -> 0
        upper == CASE range.end[1] = "Included" -> Some(range.end[2])
                   [] range.end[1] = "Excluded" -> Some(Max(range.end[2], 1) - 1)
                   [] range.end[1] = "Unbounded" -> None
    IN  IF IsSome(upper)
        THEN IF Unwrap(upper) >= lower
             THEN Some(Repetition(ts, lower, Some(Unwrap(upper) - lower)))
             ELSE None
        ELSE Some(Repetition(ts, lower, None))

Repetition_new(ts, range) ==
    LET lower == CASE range.start[1] = "Included" -> range.start[2]
                   [] range.start[1] = "Excluded" -> range.start[2] + 1
                   [] range.start[1] = "Unbounded" -> 0
        upper == CASE range.end[1] = "Included" -> Some(range.end[2])
                   [] range.end[1] = "Excluded" -> Some(Max(range.end[2], 1) - 1)
                   [] range.end[1] = "Unbounded" -> None
    IN  IF IsSome(upper)
        THEN IF Unwrap(upper) # 0 /\ Unwrap(upper) >= lower
             THEN Some(Repetition(ts, lower, Some(Unwrap(upper) - lower)))
             ELSE None
        ELSE Some(Repetition(ts, lower, None))

-----------------------------------------------------------------------------
(* Partitioning *)

\* variance::invariant_text_prefix: the text accumulated by the conjunctive fold
\* up to the first token whose own variance is Variant.
RECURSIVE invariant_text_prefix(_)
invariant_text_prefix(ts) ==
    IF ts = <<>> THEN <<>>
    ELSE LET v == Token_unit_variance(Text, Head(ts))
         IN  IF is_variant(v) THEN <<>> ELSE v[2] \o invariant_text_prefix(Tail(ts))

\* variance::invariant_text_prefix_upper_bound: the count of leading tokens
\* consumed by that fold.
RECURSIVE invariant_text_prefix_upper_bound(_)
invariant_text_prefix_upper_bound(ts) ==
    IF ts = <<>> THEN 0
    ELSE IF is_variant(Token_unit_variance(Text, Head(ts))) THEN 0
    ELSE 1 + invariant_text_prefix_upper_bound(Tail(ts))

\* Faulty variation: unroot that leaves the flag of a tree wildcard as it is.
TokenKind_unroot_keeps_flag(t) ==
    [token |-> t, result |-> IF IsTree(t) THEN t.has_root ELSE FALSE]

\* Faulty variation: unroot that flips the flag of a tree wildcard.
TokenKind_unroot_flips_flag(t) ==
    IF IsTree(t)
    THEN [token |-> [t EXCEPT !.has_root = ~t.has_root], result |-> t.has_root]
    ELSE [token |-> t, result |-> FALSE]

\* TokenKind::unroot: the token afterwards and the returned flag.
TokenKind_unroot(t) ==
    IF IsTree(t)
    THEN [token |-> [t EXCEPT !.has_root = FALSE], result |-> t.has_root]
    ELSE [token |-> t, result |-> FALSE]

\* Token::unroot
Token_unroot(t) == TokenKind_unroot(t)

\* Faulty variation: a drain that takes one token too many.
drain_inclusive(ts, n) == SubSeq(ts, n + 2, Len(ts))

\* Vec::drain(0..n) followed by first_mut().map(Token::unroot)
drain(ts, n) == SubSeq(ts, n + 1, Len(ts))
unroot_first(ts) == IF ts = <<>> THEN <<>> ELSE <<Token_unroot(Head(ts)).token>> \o Tail(ts)
unroot_first_result(ts) == IF ts = <<>> THEN None ELSE Some(Token_unroot(Head(ts)).result)

\* Tokenized::partition: the returned path and the remaining tokens.
Tokenized_partition(ts) ==
    [prefix |-> invariant_text_prefix(ts),
     tokens |-> unroot_first(drain(ts, invariant_text_prefix_upper_bound(ts))),
     unrooted |-> unroot_first_result(drain(ts, invariant_text_prefix_upper_bound(ts)))]

-----------------------------------------------------------------------------
(* Components *)

\* The tokens left once the leading separators are skipped (the while loop).
RECURSIVE skip_separators(_)
skip_separators(ts) ==
    IF ts # <<>> /\ Head(ts).kind = "Separator" THEN skip_separators(Tail(ts)) ELSE ts

\* Itertools::peeking_take_while(|token| !token.is_component_boundary()):
\* how many leading tokens it takes; the token that fails stays in the iterator.
RECURSIVE peeking_take_while(_)
peeking_take_while(ts) ==
    IF ts = <<>> \/ is_component_boundary(Head(ts)) THEN 0
    ELSE 1 + peeking_take_while(Tail(ts))

\* Faulty variation: take_while in place of peeking_take_while, which also
\* consumes the token that ends the run.
RECURSIVE components_take_while(_)
components_take_while(ts) ==
    LET rest == skip_separators(ts)
    IN  IF rest = <<>> THEN <<>>
        ELSE IF IsTree(Head(rest))
        THEN <<(<<Head(rest)>>)>> \o components_take_while(Tail(rest))
        ELSE LET n == peeking_take_while(Tail(rest))
             IN  <<SubSeq(rest, 1, n + 1)>>
                    \o components_take_while(SubSeq(rest, n + 3, Len(rest)))

\* components: the components the batching iterator yields, in order.
RECURSIVE components(_)
components(ts) ==
    LET rest == skip_separators(ts)
    IN  IF rest = <<>> THEN <<>>
        ELSE IF IsTree(Head(rest))
        THEN <<(<<Head(rest)>>)>> \o components(Tail(rest))
        ELSE LET n == peeking_take_while(Tail(rest))
             IN  <<SubSeq(rest, 1, n + 1)>> \o components(SubSeq(rest, n + 2, Len(rest)))

\* Component::literal: the LiteralSequence of the component's literals, unless
\* any token is not a Literal.
Component_literal(ts) ==
    IF ~(\E i \in DOMAIN ts : ts[i].kind # "Literal") THEN Some(ts) ELSE None

-----------------------------------------------------------------------------
(* Inputs *)

Lit1 == Literal(<<"1">>, FALSE)
LitA == Literal(<<"a">>, FALSE)

\* The range arguments of Repetition::new.
StartBounds ==
    {Unbounded} \cup {Included(n) : n \in 0..MaxBound} \cup {Excluded(n) : n \in 0..MaxBound}
Ranges == [start : StartBounds, end : StartBounds]

\* The repetitions Repetition::new builds over the token sequences of S.
Repetitions(S) ==
    {Unwrap(Repetition_new(x[1], x[2])) :
        x \in {y \in S \X Ranges : IsSome(Repetition_new(y[1], y[2]))}}

\* Tokens inside branches and repetitions.
NestLeaf == {Lit1, LitA, Separator, Tree(FALSE)}
NestSeqs == SeqsUpTo(NestLeaf, MaxLen)
Branches ==
    {<<a>> : a \in NestSeqs}
    \cup {<<a, b>> : a \in NestSeqs, b \in NestSeqs}
    \cup {<<(<<a>>), (<<b>>), (<<c>>)>> : a \in NestLeaf, b \in NestLeaf, c \in NestLeaf}
Alternatives == {Alternative(bs) : bs \in Branches}

\* Groups holding one group: alternatives and repetitions two levels deep.
Inner == {Alternative(<<(<<l>>)>>) : l \in NestLeaf} \cup Repetitions({<<l>> : l \in NestLeaf})
Nested == {Alternative(<<(<<t>>)>>) : t \in Inner} \cup Repetitions({<<t>> : t \in Inner})

\* Tokens for the root analysis: leaves, groups over every short sequence of
\* leaves (the empty one included), and groups that hold a group.
RootLeaf == {Lit1, Separator, Tree(TRUE), Tree(FALSE)}
RootSeqs == SeqsUpTo(RootLeaf, MaxLen)
OneOrMore(ts) == Unwrap(Repetition_new(ts, [start |-> Included(1), end |-> Unbounded]))
RootGroups ==
    {Alternative(<<a>>) : a \in RootSeqs}
    \cup {Alternative(<<a, b>>) : a \in RootSeqs, b \in RootSeqs}
    \cup {OneOrMore(a) : a \in RootSeqs}
RootInner ==
    {Alternative(<<a>>) : a \in SeqsUpTo(RootLeaf, 1)}
    \cup {OneOrMore(a) : a \in SeqsUpTo(RootLeaf, 1)}
RootNested ==
    {Alternative(<<(<<g, l>>), b>>) : g \in RootInner, l \in RootLeaf, b \in RootSeqs}
    \cup {OneOrMore(<<g, l>>) : g \in RootInner, l \in RootLeaf}
    \cup {OneOrMore(<<l, g>>) : g \in RootInner, l \in RootLeaf}
RootTokens == RootLeaf \cup RootGroups \cup RootNested

Literals ==
    {Literal(text, i) : text \in {<<"a">>, <<"b">>, <<"1">>, <<"1", "a">>, <<"1", "1">>},
                        i \in BOOLEAN}
Archetypes ==
    {Character("a"), Character("b"), Range("a", "a"), Range("a", "b"), Range("b", "b")}
Classes ==
    {Class(n, as) : n \in BOOLEAN, as \in SeqsUpTo(Archetypes, MaxLen) \ {<<>>}}
Wildcards == {One, ZeroOrMore("Eager"), ZeroOrMore("Lazy"), Tree(TRUE), Tree(FALSE)}

Tokens ==
    Literals \cup Classes \cup {Separator} \cup Wildcards
    \cup Alternatives \cup Repetitions(NestSeqs) \cup Nested

\* Top-level tokens of a pattern.
PatternTokens ==
    {Lit1, LitA, Separator, One, Tree(TRUE), Tree(FALSE),
     Alternative(<<(<<Lit1>>), (<<Lit1>>)>>), Alternative(<<(<<Tree(TRUE)>>)>>)}
Patterns == SeqsUpTo(PatternTokens, MaxPattern)

\* Values of Component: every component that components yields for a pattern,
\* and the component over an empty vector.
Components_of(ts) == {components(ts)[i] : i \in DOMAIN components(ts)}
ComponentValues == {<<>>} \cup UNION {Components_of(ts) : ts \in Patterns}

-----------------------------------------------------------------------------
(* Partitioning a pattern *)

Init ==
    /\ PATHS_ARE_CASE_INSENSITIVE \in BOOLEAN
    /\ tokens \in Patterns
    /\ original = tokens
    /\ prefix = None
    /\ calls = 0
    /\ token = None
    /\ text_variance = None
    /\ size_variance = None
    /\ depth = None
    /\ new_args = None
    /\ repetition = None
    /\ bounds = None
    /\ unrooted = None
    /\ component_list = None
    /\ root = None
    /\ component = None
    /\ component_literal = None

Partition ==
    /\ calls < MaxCalls
    /\ original' = tokens
    /\ prefix' = Some(Tokenized_partition(tokens).prefix)
    /\ tokens' = Tokenized_partition(tokens).tokens
    /\ calls' = calls + 1
    /\ unrooted' = Some(Tokenized_partition(tokens).unrooted)
    /\ component_list' = None
    /\ UNCHANGED <<PATHS_ARE_CASE_INSENSITIVE, token, text_variance, size_variance,
                   depth, new_args, repetition, bounds, root, component, component_literal>>

\* components(tokenized.tokens()), collected; the components borrow the tokens,
\* so none outlives a call of partition, which takes the pattern by value.
Components ==
    /\ component_list' = Some(components(tokens))
    /\ UNCHANGED <<PATHS_ARE_CASE_INSENSITIVE, tokens, original, prefix, calls, token,
                   text_variance, size_variance, depth, new_args, repetition, bounds,
                   unrooted, root, component, component_literal>>

Next == Partition \/ Components

Spec == Init /\ [][Next]_vars

-----------------------------------------------------------------------------
(* Analysing one token *)

InitVariance ==
    /\ PATHS_ARE_CASE_INSENSITIVE \in BOOLEAN
    /\ token \in {Some(t) : t \in Tokens}
    /\ text_variance = None
    /\ size_variance = None
    /\ depth = None
    /\ tokens = <<>>
    /\ original = <<>>
    /\ prefix = None
    /\ calls = 0
    /\ new_args = None
    /\ repetition = None
    /\ bounds = None
    /\ unrooted = None
    /\ component_list = None
    /\ root = None
    /\ component = None
    /\ component_literal = None

TextVariance ==
    /\ IsSome(token)
    /\ text_variance' = Some(Token_unit_variance(Text, Unwrap(token)))
    /\ UNCHANGED <<PATHS_ARE_CASE_INSENSITIVE, tokens, original, prefix, calls, token,
                   size_variance, depth, new_args, repetition, bounds,
                   unrooted, component_list, root, component, component_literal>>

SizeVariance ==
    /\ IsSome(token)
    /\ size_variance' = Some(Token_unit_variance(Size, Unwrap(token)))
    /\ UNCHANGED <<PATHS_ARE_CASE_INSENSITIVE, tokens, original, prefix, calls, token,
                   text_variance, depth, new_args, repetition, bounds,
                   unrooted, component_list, root, component, component_literal>>

Depth ==
    /\ IsSome(token)
    /\ depth' = Some(TokenKind_depth(Unwrap(token)))
    /\ UNCHANGED <<PATHS_ARE_CASE_INSENSITIVE, tokens, original, prefix, calls, token,
                   text_variance, size_variance, new_args, repetition, bounds,
                   unrooted, component_list, root, component, component_literal>>

NextVariance == TextVariance \/ SizeVariance \/ Depth

SpecVariance == InitVariance /\ [][NextVariance]_vars

-----------------------------------------------------------------------------
(* Constructing a repetition *)

InitRepetition ==
    /\ PATHS_ARE_CASE_INSENSITIVE \in BOOLEAN
    /\ new_args \in {Some([tokens |-> ts, bounds |-> r]) : ts \in NestSeqs, r \in Ranges}
    /\ repetition = None
    /\ bounds = None
    /\ tokens = <<>>
    /\ original = <<>>
    /\ prefix = None
    /\ calls = 0
    /\ token = None
    /\ text_variance = None
    /\ size_variance = None
    /\ depth = None
    /\ unrooted = None
    /\ component_list = None
    /\ root = None
    /\ component = None
    /\ component_literal = None

New ==
    /\ IsSome(new_args)
    /\ repetition = None
    /\ repetition' = Some(Repetition_new(Unwrap(new_args).tokens, Unwrap(new_args).bounds))
    /\ UNCHANGED <<PATHS_ARE_CASE_INSENSITIVE, tokens, original, prefix, calls, token,
                   text_variance, size_variance, depth, new_args, bounds,
                   unrooted, component_list, root, component, component_literal>>

Bounds ==
    /\ IsSome(repetition)
    /\ IsSome(Unwrap(repetition))
    /\ bounds' = Some(Repetition_bounds(Unwrap(Unwrap(repetition))))
    /\ UNCHANGED <<PATHS_ARE_CASE_INSENSITIVE, tokens, original, prefix, calls, token,
                   text_variance, size_variance, depth, new_args, repetition,
                   unrooted, component_list, root, component, component_literal>>

NextRepetition == New \/ Bounds

SpecRepetition == InitRepetition /\ [][NextRepetition]_vars

-----------------------------------------------------------------------------
(* Looking for a root *)

InitRoot ==
    /\ PATHS_ARE_CASE_INSENSITIVE \in BOOLEAN
    /\ token \in {Some(t) : t \in RootTokens}
    /\ root = None
    /\ text_variance = None
    /\ size_variance = None
    /\ depth = None
    /\ new_args = None
    /\ repetition = None
    /\ bounds = None
    /\ tokens = <<>>
    /\ original = <<>>
    /\ prefix = None
    /\ calls = 0
    /\ unrooted = None
    /\ component_list = None
    /\ component = None
    /\ component_literal = None

HasRoot ==
    /\ IsSome(token)
    /\ root' = Some(Token_has_root(Unwrap(token)))
    /\ UNCHANGED <<PATHS_ARE_CASE_INSENSITIVE, tokens, original, prefix, calls, token,
                   text_variance, size_variance, depth, new_args, repetition, bounds,
                   unrooted, component_list, component, component_literal>>

NextRoot == HasRoot

SpecRoot == InitRoot /\ [][NextRoot]_vars

-----------------------------------------------------------------------------
(* The literal of a component *)

InitComponent ==
    /\ PATHS_ARE_CASE_INSENSITIVE \in BOOLEAN
    /\ component \in {Some(c) : c \in ComponentValues}
    /\ component_literal = None
    /\ token = None
    /\ root = None
    /\ text_variance = None
    /\ size_variance = None
    /\ depth = None
    /\ new_args = None
    /\ repetition = None
    /\ bounds = None
    /\ tokens = <<>>
    /\ original = <<>>
    /\ prefix = None
    /\ calls = 0
    /\ unrooted = None
    /\ component_list = None

ComponentLiteral ==
    /\ IsSome(component)
    /\ component_literal' = Some(Component_literal(Unwrap(component)))
    /\ UNCHANGED <<PATHS_ARE_CASE_INSENSITIVE, tokens, original, prefix, calls, token,
                   text_variance, size_variance, depth, new_args, repetition, bounds,
                   unrooted, component_list, root, component>>

NextComponent == ComponentLiteral

SpecComponent == InitComponent /\ [][NextComponent]_vars

-----------------------------------------------------------------------------
(* Properties of partitioning *)

IsTextVariant(t) == is_variant(Token_unit_variance(Text, t))

\* The number of tokens before the first top-level token whose own text
\* variance is Variant (all of them when there is none).
LeadingInvariant(ts) ==
    IF \E i \in DOMAIN ts : IsTextVariant(ts[i])
    THEN (CHOOSE i \in DOMAIN ts :
            IsTextVariant(ts[i]) /\ \A j \in 1..(i - 1) : ~IsTextVariant(ts[j])) - 1
    ELSE Len(ts)

\* The parser's contract: only the first token may be a rooted tree wildcard.
ParserContract(ts) == \A i \in DOMAIN ts : i > 1 => ts[i] # Tree(TRUE)

\* C1: partition removes exactly the k leading tokens that precede the first
\* top-level token of Variant text variance; what remains is the original
\* tokens k+1, k+2, ... in order, each unchanged except that the new first
\* token may have had its has_root flag cleared.
C1_PartitionDrainsInvariantPrefix ==
    calls > 0 =>
        LET k == LeadingInvariant(original)
        IN  /\ Len(tokens) = Len(original) - k
            /\ \A j \in DOMAIN tokens :
                    \/ tokens[j] = original[k + j]
                    \/ /\ j = 1
                       /\ IsTree(original[k + 1])
                       /\ tokens[1] = [original[k + 1] EXCEPT !.has_root = FALSE]

C1_Witness ==
    /\ calls > 0
    /\ LeadingInvariant(original) = 2
    /\ Len(tokens) = 1
    /\ tokens[1] = One

\* C2: after partition a leading tree wildcard of the remaining pattern is not
\* rooted, and no token but that first one differs from the original.
C2_PartitionUnrootsFirstTree ==
    (calls > 0 /\ ParserContract(original)) =>
        LET off == Len(original) - Len(tokens)
        IN  /\ (tokens # <<>> /\ IsTree(tokens[1])) => ~tokens[1].has_root
            /\ \A j \in DOMAIN tokens :
                    (j > 1 \/ ~IsTree(tokens[1])) => tokens[j] = original[off + j]

C2_Witness ==
    /\ calls > 0
    /\ ParserContract(original)
    /\ original = <<Tree(TRUE), Lit1>>
    /\ tokens = <<Tree(FALSE), Lit1>>

-----------------------------------------------------------------------------
(* Properties of unit variance *)

IsKind(kind) == IsSome(token) /\ Unwrap(token).kind = kind

\* The conjunctive variance of a token sequence as written, term by term.
Fold(dom, ts) == conjunctive_variance(dom, unit_variances(dom, ts))

\* The disjunction law for the result of an alternative in one domain.
DisjunctionLaw(dom, result, branches) ==
    LET cv(i) == Fold(dom, branches[i])
        agree == \A i \in DOMAIN branches : is_invariant(cv(i)) /\ cv(i) = cv(1)
    IN  /\ is_invariant(result) <=> agree
        /\ agree => result = cv(1)
        /\ is_variant(result) =>
                (result[2] = Closed <=> \A i \in DOMAIN branches : cv(i) # Variant(Open))

\* C3: the unit variance of an alternative is Invariant(a) exactly when every
\* branch folds to Invariant(a) with the same a; otherwise it is Variant, Closed
\* exactly when no branch folds to Variant(Open).
C3_AlternativeIsDisjunction ==
    IsKind("Alternative") =>
        /\ IsSome(text_variance) =>
                DisjunctionLaw(Text, Unwrap(text_variance), Unwrap(token).branches)
        /\ IsSome(size_variance) =>
                DisjunctionLaw(Size, Unwrap(size_variance), Unwrap(token).branches)

C3_Witness ==
    /\ token = Some(Alternative(<<(<<Lit1, Separator>>), (<<Lit1, Separator>>)>>))
    /\ ~PATHS_ARE_CASE_INSENSITIVE
    /\ text_variance = Some(Invariant(<<"1", "/">>))
    /\ size_variance = Some(Invariant(2))

\* The multiplication law for the result of an exact repetition in one domain.
ExactLaw(dom, result, rep) ==
    LET cv == Fold(dom, rep.tokens)
    IN  IF is_invariant(cv)
        THEN result = Invariant(IF dom = Text THEN RepeatText(cv[2], rep.lower)
                                              ELSE cv[2] * rep.lower)
        ELSE result = cv

\* C4: a repetition with step 0 (lower = upper = n) has the conjunctive
\* variance of its children multiplied by n: Invariant(a) becomes Invariant of
\* a repeated n times and Variant(b) stays Variant(b).
C4_ExactRepetitionMultiplies ==
    (IsKind("Repetition") /\ Unwrap(token).step = Some(0)) =>
        /\ IsSome(text_variance) => ExactLaw(Text, Unwrap(text_variance), Unwrap(token))
        /\ IsSome(size_variance) => ExactLaw(Size, Unwrap(size_variance), Unwrap(token))

C4_Witness ==
    /\ token = Some(Repetition(<<Lit1, Separator>>, 3, Some(0)))
    /\ text_variance = Some(Invariant(<<"1", "/", "1", "/", "1", "/">>))
    /\ size_variance = Some(Invariant(6))

\* C5: a repetition whose step is greater than 0 or unset is Variant(Open)
\* whatever its children are.
C5_RangedRepetitionIsOpen ==
    (IsKind("Repetition") /\ Unwrap(token).step # Some(0)) =>
        /\ IsSome(text_variance) => Unwrap(text_variance) = Variant(Open)
        /\ IsSome(size_variance) => Unwrap(size_variance) = Variant(Open)

C5_Witness ==
    /\ token = Some(Repetition(<<Lit1>>, 1, Some(2)))
    /\ ~PATHS_ARE_CASE_INSENSITIVE
    /\ text_variance = Some(Variant(Open))
    /\ size_variance = Some(Variant(Open))

\* C7 as claimed: One and ZeroOrMore are Variant(Closed) and only Tree is
\* Variant(Open), in the text and in the size domain.
C7_WildcardTable ==
    IsKind("Wildcard") =>
        LET expected == IF Unwrap(token).wildcard = "Tree" THEN Variant(Open)
                                                          ELSE Variant(Closed)
        IN  /\ IsSome(text_variance) => Unwrap(text_variance) = expected
            /\ IsSome(size_variance) => Unwrap(size_variance) = expected

\* C7 as amended: every wildcard, One and ZeroOrMore as well as Tree, is
\* Variant(Open) in the text and in the size domain.
C7_EveryWildcardIsOpen ==
    IsKind("Wildcard") =>
        /\ IsSome(text_variance) => Unwrap(text_variance) = Variant(Open)
        /\ IsSome(size_variance) => Unwrap(size_variance) = Variant(Open)

C7_Witness ==
    /\ token = Some(One)
    /\ text_variance = Some(Variant(Open))
    /\ size_variance = Some(Variant(Open))

\* C9: a literal is Invariant(its text) exactly when its case flag equals the
\* path case policy or its text has no cased character; otherwise it is
\* Variant(Closed).
C9_LiteralCasing ==
    IsKind("Literal") =>
        LET literal == Unwrap(token)
            agrees == \/ literal.is_case_insensitive = PATHS_ARE_CASE_INSENSITIVE
                      \/ \A i \in DOMAIN literal.text : literal.text[i] \notin CasedChars
        IN  /\ IsSome(text_variance) =>
                    Unwrap(text_variance) =
                        IF agrees THEN Invariant(literal.text) ELSE Variant(Closed)
            /\ IsSome(size_variance) =>
                    Unwrap(size_variance) =
                        IF agrees THEN Invariant(Len(literal.text)) ELSE Variant(Closed)

C9_Witness ==
    /\ token = Some(Literal(<<"1", "a">>, FALSE))
    /\ PATHS_ARE_CASE_INSENSITIVE
    /\ text_variance = Some(Variant(Closed))

\* Every archetype is Invariant on its own: a character, or a range with equal
\* ends, under the case-sensitive policy.
EachArchetypeInvariant(class) ==
    /\ ~PATHS_ARE_CASE_INSENSITIVE
    /\ \A i \in DOMAIN class.archetypes :
            LET a == class.archetypes[i] IN a[1] = "Character" \/ a[2] = a[3]

SameCharacter(class) ==
    \A i \in DOMAIN class.archetypes : class.archetypes[i][2] = class.archetypes[1][2]

\* C10 as claimed: a negated class is Variant(Closed); a class that is not
\* negated is Invariant only when every archetype is Invariant on its own with
\* the same character.
C10_ClassVariance ==
    IsKind("Class") =>
        LET class == Unwrap(token)
            Law(v) ==
                /\ (IsSome(v) /\ class.is_negated) => Unwrap(v) = Variant(Closed)
                /\ (IsSome(v) /\ ~class.is_negated /\ is_invariant(Unwrap(v))) =>
                        EachArchetypeInvariant(class) /\ SameCharacter(class)
        IN  Law(text_variance) /\ Law(size_variance)

\* C10 as amended: a negated class is Variant(Closed) in both domains; a class
\* that is not negated is Invariant only when every archetype is Invariant on
\* its own, and in the text domain only when they also hold the same character
\* (in the size domain each such archetype counts 4, so the characters may
\* differ).
C10_ClassVarianceByDomain ==
    IsKind("Class") =>
        LET class == Unwrap(token)
        IN  /\ (IsSome(text_variance) /\ class.is_negated) =>
                    Unwrap(text_variance) = Variant(Closed)
            /\ (IsSome(size_variance) /\ class.is_negated) =>
                    Unwrap(size_variance) = Variant(Closed)
            /\ (IsSome(text_variance) /\ ~class.is_negated
                    /\ is_invariant(Unwrap(text_variance))) =>
                    /\ EachArchetypeInvariant(class)
                    /\ SameCharacter(class)
                    /\ Unwrap(text_variance) = Invariant(<<class.archetypes[1][2]>>)
            /\ (IsSome(size_variance) /\ ~class.is_negated
                    /\ is_invariant(Unwrap(size_variance))) =>
                    /\ EachArchetypeInvariant(class)
                    /\ Unwrap(size_variance) = Invariant(4)

C10_Witness ==
    /\ token = Some(Class(TRUE, <<Character("a"), Range("a", "a")>>))
    /\ ~PATHS_ARE_CASE_INSENSITIVE
    /\ text_variance = Some(Variant(Closed))
    /\ size_variance = Some(Variant(Closed))

-----------------------------------------------------------------------------
(* Properties of depth *)

\* Every token inside a group, at any nesting level, groups included.
RECURSIVE Inside(_)
Inside(t) ==
    LET children ==
            CASE t.kind = "Alternative" ->
                    UNION {{t.branches[i][j] : j \in DOMAIN t.branches[i]} :
                            i \in DOMAIN t.branches}
              [] t.kind = "Repetition" -> {t.tokens[i] : i \in DOMAIN t.tokens}
              [] OTHER -> {}
    IN  children \cup UNION {Inside(c) : c \in children}

\* C8 as claimed: an alternative is depth-Open exactly when some token inside
\* its branches, nested groups included, is depth-Open.
C8_AlternativeDepth ==
    (IsKind("Alternative") /\ IsSome(depth)) =>
        (Unwrap(depth) = Open <=> \E t \in Inside(Unwrap(token)) : TokenKind_depth(t) = Open)

-----------------------------------------------------------------------------
(* Properties of Repetition::new *)

\* The bounds a range asks for: the lower bound, and the inclusive upper bound.
RangeLower(range) ==
    CASE range.start[1] = "Included" -> range.start[2]
      [] range.start[1] = "Excluded" -> range.start[2] + 1
      [] OTHER -> 0
RangeHasUpper(range) == range.end[1] # "Unbounded"
RangeUpper(range) ==
    CASE range.end[1] = "Included" -> range.end[2]
      [] range.end[1] = "Excluded" -> IF range.end[2] = 0 THEN 0 ELSE range.end[2] - 1

\* C6: Repetition::new yields nothing exactly when an upper bound is given
\* and, made inclusive, is zero or below the lower bound; otherwise the
\* repetition has step = upper - lower (or none) and bounds() returns
\* (lower, upper) or (lower, none).
C6_NewAndBounds ==
    IsSome(repetition) =>
        LET args == Unwrap(new_args)
            range == args.bounds
            result == Unwrap(repetition)
            invalid == /\ RangeHasUpper(range)
                       /\ (RangeUpper(range) = 0 \/ RangeUpper(range) < RangeLower(range))
        IN  /\ result = None <=> invalid
            /\ IsSome(result) =>
                    /\ Unwrap(result).tokens = args.tokens
                    /\ Unwrap(result).lower = RangeLower(range)
                    /\ Unwrap(result).step =
                            IF RangeHasUpper(range)
                            THEN Some(RangeUpper(range) - RangeLower(range))
                            ELSE None
                    /\ IsSome(bounds) =>
                            Unwrap(bounds) =
                                <<RangeLower(range),
                                  IF RangeHasUpper(range) THEN Some(RangeUpper(range)) ELSE None>>

C6_Witness ==
    /\ IsSome(new_args)
    /\ Unwrap(new_args).bounds = [start |-> Excluded(0), end |-> Excluded(3)]
    /\ IsSome(repetition)
    /\ bounds = Some(<<1, Some(2)>>)

-----------------------------------------------------------------------------
(* Properties of components *)

\* The runs of a flat sequence, read in one pass: a separator ends the current
\* run, a tree wildcard ends it and stands alone, any other token extends it.
RECURSIVE Runs(_, _)
Runs(ts, run) ==
    LET flushed == IF run = <<>> THEN <<>> ELSE <<run>>
    IN  IF ts = <<>> THEN flushed
        ELSE IF Head(ts).kind = "Separator" THEN flushed \o Runs(Tail(ts), <<>>)
        ELSE IF IsTree(Head(ts)) THEN flushed \o <<(<<Head(ts)>>)>> \o Runs(Tail(ts), <<>>)
        ELSE Runs(Tail(ts), Append(run, Head(ts)))

RECURSIVE Flatten(_)
Flatten(cs) == IF cs = <<>> THEN <<>> ELSE Head(cs) \o Flatten(Tail(cs))

NotSeparator(t) == t.kind # "Separator"

\* C11: components yields only non-empty components, each a tree wildcard
\* alone or a maximal run without separator and tree wildcard, and their
\* concatenation is the input without its separators.
C11_ComponentsAreMaximalRuns ==
    IsSome(component_list) =>
        LET cs == Unwrap(component_list)
        IN  /\ \A i \in DOMAIN cs : cs[i] # <<>>
            /\ \A i \in DOMAIN cs :
                    \/ Len(cs[i]) = 1 /\ IsTree(cs[i][1])
                    \/ \A j \in DOMAIN cs[i] : ~is_component_boundary(cs[i][j])
            /\ Flatten(cs) = SelectSeq(tokens, NotSeparator)
            /\ cs = Runs(tokens, <<>>)

C11_Witness ==
    /\ tokens = <<Lit1, One, Tree(FALSE)>>
    /\ component_list = Some(<<(<<Lit1, One>>), (<<Tree(FALSE)>>)>>)

\* C15: a second partition, applied to what the first one left, returns an
\* empty prefix and the same tokens, flags included, and its unroot returns
\* false.
C15_PartitionIsIdempotent ==
    calls >= 2 =>
        /\ prefix = Some(<<>>)
        /\ tokens = original
        /\ Unwrap(unrooted) \in {None, Some(FALSE)}

C15_Witness ==
    /\ calls = 2
    /\ tokens = <<Tree(FALSE), Lit1>>
    /\ original = tokens
    /\ unrooted = Some(Some(FALSE))
    /\ prefix = Some(<<>>)

-----------------------------------------------------------------------------
(* Properties of has_root *)

\* The leaves in first position: the token itself, or the first-position
\* leaves of the first token of every branch, or of the first child.
RECURSIVE FirstLeaves(_)
FirstLeaves(t) ==
    CASE t.kind = "Alternative" ->
            UNION {FirstLeaves(t.branches[i][1]) :
                     i \in {k \in DOMAIN t.branches : t.branches[k] # <<>>}}
      [] t.kind = "Repetition" ->
            IF t.tokens = <<>> THEN {} ELSE FirstLeaves(t.tokens[1])
      [] OTHER -> {t}

\* C12: has_root is true exactly when some first-position leaf is a separator
\* or a rooted tree wildcard; an empty branch or repetition contributes none.
C12_HasRootByFirstLeaves ==
    IsSome(root) =>
        (Unwrap(root) <=>
            \E l \in FirstLeaves(Unwrap(token)) :
                l.kind = "Separator" \/ (IsTree(l) /\ l.has_root))

C12_Witness ==
    /\ token = Some(Alternative(<<(<<OneOrMore(<<>>), Separator>>), (<<Lit1, Tree(TRUE)>>)>>))
    /\ root = Some(FALSE)

-----------------------------------------------------------------------------
(* Depth of an exact repetition *)

\* C13: a repetition with step = 0 has depth Open exactly when its children
\* are depth-open and span a component boundary, and Closed otherwise.
C13_ExactRepetitionDepth ==
    (IsKind("Repetition") /\ IsSome(depth) /\ Unwrap(token).step = Some(0)) =>
        LET rep == Unwrap(token)
        IN  Unwrap(depth) = Open <=>
                /\ \E i \in DOMAIN rep.tokens : TokenKind_depth(rep.tokens[i]) = Open
                /\ Repetition_has_component_boundary(rep)

-----------------------------------------------------------------------------
(* Properties of Component::literal *)

\* C14: Component::literal returns a LiteralSequence exactly when the
\* component has at least one token and every token is a Literal; it returns
\* None for a component without tokens and for one with a non-Literal token.
C14_LiteralOfComponent ==
    IsSome(component_literal) =>
        LET c == Unwrap(component)
        IN  IsSome(Unwrap(component_literal)) <=>
                (c # <<>> /\ \A i \in DOMAIN c : c[i].kind = "Literal")

=============================================================================
